---- MODULE Spec2Model ----
(***************************************************************************)
(* The job orchestrator of web_app.py: the two module-level job maps, the  *)
(* per-job background thread (JobProcessor.process_job), the request       *)
(* handlers (generate, get_status, download_file) and the self-re-arming   *)
(* reclamation sweep (cleanup_old_jobs), with the staged files on disk.    *)
(*                                                                         *)
(* Threads interleave between the statements that touch shared state (the  *)
(* maps, the disk).  Request handlers only read the maps, so at most one   *)
(* request is modelled in flight at a time; job threads and the sweep run  *)
(* between any two steps of a handler.                                     *)
(***************************************************************************)
EXTENDS Integers, Sequences, FiniteSets, TLC

\* ---- bounds of the model ----
MaxJobs == 2            \* job identifiers handed out by generate
MaxTime == 5400         \* the clock stops advancing here
SweepsMaxTime == 10800  \* the same, where the clock runs on to a second sweep

\* ---- constants of the program ----
RetentionSeconds == 3600    \* cleanup_old_jobs: time.time() - 3600
TimerInterval == 1800       \* threading.Timer(1800, cleanup_old_jobs)
DefaultMaxUrls == 20        \* data.get('max_urls', 20)

JobIds == 1..MaxJobs
UnknownJob == 0             \* an identifier generate never returned

\* Python's None
None == [none |-> TRUE]

\* ---- dict helpers ----
Put(d, k, v) == [x \in (DOMAIN d) \cup {k} |-> IF x = k THEN v ELSE d[x]]
Del(d, k) == [x \in (DOMAIN d) \ {k} |-> d[x]]
EmptyDict == [x \in {} |-> None]
RemoveKey(s, k) == SelectSeq(s, LAMBDA x : x # k)

\* ---- URLs: scheme, then the dot-separated pieces of the host ----
Url1 == <<"https://", "www.", "a.com">>
Url2 == <<"https://", "b.org">>

\* urlparse(url).netloc
Netloc(url) == Tail(url)
\* urlparse(url).netloc.replace("www.", "")
Domain(url) == SelectSeq(Netloc(url), LAMBDA t : t # "www.")
LlmstxtName(url) == Domain(url) \o <<"-llms.txt">>
LlmsFulltxtName(url) == Domain(url) \o <<"-llms-full.txt">>
\* os.path.join(temp_dir, name)
PathJoin(dir, name) == [dir |-> dir, name |-> name]

\* ---- request bodies of POST /api/generate (request.get_json()) ----
Bodies ==
    { [present |-> FALSE, data |-> EmptyDict],
      [present |-> TRUE, data |-> EmptyDict],
      [present |-> TRUE, data |-> [max_urls |-> 10]],
      [present |-> TRUE, data |-> [url |-> Url1]],
      [present |-> TRUE,
       data |-> [url |-> Url2, max_urls |-> 10, include_full_text |-> FALSE]] }

\* data.get(key, default)
Get(data, key, default) == IF key \in DOMAIN data THEN data[key] ELSE default

\* `not data or 'url' not in data`
UrlMissing(body) ==
    \/ ~body.present
    \/ DOMAIN body.data = {}
    \/ "url" \notin DOMAIN body.data

\* ---- exceptions and str(e) ----
NotInitialized == [type |-> "Exception", arg |-> "Generator not initialized - check API keys"]
GeneratorError == [type |-> "Exception", arg |-> "crawl failed"]
MkdtempError == [type |-> "OSError", arg |-> "No usable temporary directory found"]
WriteError == [type |-> "OSError", arg |-> "No space left on device"]
BadRequestUrl == [type |-> "BadRequest", arg |-> "URL is required"]

Str(e) ==
    CASE e.type = "BadRequest" -> "400 Bad Request: " \o e.arg
      [] e.type = "KeyError" -> "'" \o e.arg \o "'"
      [] OTHER -> e.arg

\* ---- the generator collaborator: what generate_llmstxt may do ----
GeneratorResult(url, max_urls, include_full_text) ==
    IF include_full_text
    THEN [llmstxt |-> <<"index of">> \o Netloc(url),
          llms_fulltxt |-> <<"full text of">> \o Netloc(url),
          num_urls_processed |-> max_urls]
    ELSE [llmstxt |-> <<"index of">> \o Netloc(url),
          num_urls_processed |-> max_urls]

VARIABLES
    generator,        \* job_processor.generator is not None
    ACTIVE_JOBS,      \* job id -> pending record
    COMPLETED_JOBS,   \* job id -> terminal record
    completed_order,  \* keys of COMPLETED_JOBS in insertion (iteration) order
    task,             \* job id -> the locals of the job's thread
    next_job,         \* number of identifiers uuid4 has produced
    disk,             \* temp dir -> (file name -> content)
    now,              \* time.time()
    sweep,            \* the cleanup timer / the running cleanup_old_jobs
    req,              \* the request in flight
    resp              \* the response the step just taken sent, if it sent one

vars == <<generator, ACTIVE_JOBS, COMPLETED_JOBS, completed_order, task,
          next_job, disk, now, sweep, req, resp>>

jobvars == <<ACTIVE_JOBS, COMPLETED_JOBS, completed_order, task, disk>>

\* ---- locals of a job thread ----
NoTask == [pc |-> "none", url |-> <<>>, max_urls |-> 0, include_full_text |-> FALSE,
           result |-> None, temp_dir |-> 0, exc |-> None, calls |-> 0,
           completion_time |-> -1,
           data |-> EmptyDict,     \* the body generate read for this job
           args |-> None]          \* the arguments of the generate_llmstxt call

NoReq == [op |-> "none"]
NoResp == [op |-> "none"]

Init ==
    /\ generator \in BOOLEAN
    /\ ACTIVE_JOBS = EmptyDict
    /\ COMPLETED_JOBS = EmptyDict
    /\ completed_order = <<>>
    /\ task = [j \in JobIds |-> NoTask]
    /\ next_job = 0
    /\ disk = EmptyDict
    /\ now = 0
       \* the call at import time ran on the empty map and armed the timer
    /\ sweep = [pc |-> "armed", at |-> 0, cutoff |-> 0, timers |-> 1,
                di_used |-> 0, pos |-> 0, jobs_to_remove |-> <<>>]
    /\ req = NoReq
    /\ resp = NoResp

\* ---- the clock: time.time() read on a grid coarse enough that a record
\* completed at one reading is past the retention window at the next ----
ClockStep == RetentionSeconds + TimerInterval

TickTo(max_time) ==
    /\ now + ClockStep <= max_time
    /\ now' = now + ClockStep
    /\ UNCHANGED <<generator, jobvars, next_job, sweep, req>>
    /\ resp' = NoResp

Tick == TickTo(MaxTime)

\* ---- POST /api/generate ----
StartedBody(job_id) ==
    [job_id |-> job_id, status |-> "started", message |-> "Job started successfully"]

\* the status code generate answers with when it catches an exception
GenerateErrorCode == 500

ErrorBody(msg) == [error |-> msg]

\* a handler whose default for include_full_text is False
SpawnedTask_DefaultFalse(data) ==
    [NoTask EXCEPT !.pc = "spawned",
                   !.url = data.url,
                   !.max_urls = Get(data, "max_urls", DefaultMaxUrls),
                   !.include_full_text = Get(data, "include_full_text", FALSE),
                   !.data = data]

\* the thread generate starts: process_job(job_id, url, max_urls, include_full_text)
SpawnedTask(data) ==
    [NoTask EXCEPT !.pc = "spawned",
                   !.url = data.url,
                   !.max_urls = Get(data, "max_urls", DefaultMaxUrls),
                   !.include_full_text = Get(data, "include_full_text", TRUE),
                   !.data = data]

Generate(body) ==
    /\ req = NoReq
    /\ IF UrlMissing(body)
       THEN /\ resp' = [op |-> "generate", job |-> UnknownJob, code |-> GenerateErrorCode,
                        body |-> ErrorBody(Str(BadRequestUrl))]
            /\ UNCHANGED <<task, next_job>>
       ELSE /\ next_job < MaxJobs
            /\ next_job' = next_job + 1
            /\ task' = [task EXCEPT ![next_job + 1] = SpawnedTask(body.data)]
            /\ resp' = [op |-> "generate", job |-> next_job + 1, code |-> 200,
                        body |-> StartedBody(next_job + 1)]
    /\ UNCHANGED <<generator, ACTIVE_JOBS, COMPLETED_JOBS, completed_order,
                   disk, now, sweep, req>>

\* ---- JobProcessor.process_job ----
PendingRecord(url, t) ==
    [url |-> url, status |-> "processing", progress |-> "Initializing...", start_time |-> t]

CompletedRecord(url, result, llmstxt_path, llms_fulltxt_path, include_full_text, t, temp_dir) ==
    [url |-> url,
     status |-> "completed",
     result |-> result,
     files |-> [llmstxt |-> llmstxt_path,
                llms_fulltxt |-> IF include_full_text THEN llms_fulltxt_path ELSE None],
     completion_time |-> t,
     temp_dir |-> temp_dir]

\* a record that names the kind of the exception instead of its text
FailedRecord_TypeOnly(url, e, t) ==
    [url |-> url, status |-> "failed", error |-> e.type, completion_time |-> t]

FailedRecord(url, e, t) ==
    [url |-> url, status |-> "failed", error |-> Str(e), completion_time |-> t]

Raise(j, e) == [task EXCEPT ![j].pc = "except", ![j].exc = e]

\* line 73: the thread's first statement inserts the pending record
JobBegin(j) ==
    /\ task[j].pc = "spawned"
    /\ ACTIVE_JOBS' = Put(ACTIVE_JOBS, j, PendingRecord(task[j].url, now))
    /\ task' = [task EXCEPT ![j].pc = "l80"]
    /\ UNCHANGED <<generator, COMPLETED_JOBS, completed_order, next_job, disk,
                   now, sweep, req>>
    /\ resp' = NoResp

\* a thread that goes on to the generator call without testing self.generator
JobCheckGenerator_NoCheck(j) ==
    /\ task[j].pc = "l80"
    /\ ACTIVE_JOBS' = [ACTIVE_JOBS EXCEPT ![j].progress = "Mapping website..."]
    /\ task' = [task EXCEPT ![j].pc = "l86"]
    /\ UNCHANGED <<generator, COMPLETED_JOBS, completed_order, next_job, disk,
                   now, sweep, req>>
    /\ resp' = NoResp

\* lines 80-84: the generator check and the progress update
JobCheckGenerator(j) ==
    /\ task[j].pc = "l80"
    /\ IF ~generator
       THEN /\ task' = Raise(j, NotInitialized)
            /\ UNCHANGED ACTIVE_JOBS
       ELSE /\ ACTIVE_JOBS' = [ACTIVE_JOBS EXCEPT ![j].progress = "Mapping website..."]
            /\ task' = [task EXCEPT ![j].pc = "l86"]
    /\ UNCHANGED <<generator, COMPLETED_JOBS, completed_order, next_job, disk,
                   now, sweep, req>>
    /\ resp' = NoResp

\* line 86: the generator call returns a result or raises
JobGenerate(j) ==
    /\ task[j].pc = "l86"
    /\ LET args == [url |-> task[j].url, max_urls |-> task[j].max_urls,
                    include_full_text |-> task[j].include_full_text]
       IN  \/ task' = [task EXCEPT ![j].pc = "l89",
                                   ![j].calls = @ + 1,
                                   ![j].args = args,
                                   ![j].result = GeneratorResult(args.url, args.max_urls,
                                                                 args.include_full_text)]
           \/ task' = [Raise(j, GeneratorError) EXCEPT ![j].calls = @ + 1, ![j].args = args]
    /\ UNCHANGED <<generator, ACTIVE_JOBS, COMPLETED_JOBS, completed_order, next_job,
                   disk, now, sweep, req>>
    /\ resp' = NoResp

\* tempfile.mkdtemp(): a directory that did not exist, named here by the one
\* thread that creates it
Mkdtemp(j) == j

\* lines 89-102: mkdtemp and the two writes; a failure at any of the three
\* leaves what the earlier ones created
JobStage(j) ==
    /\ task[j].pc = "l89"
    /\ LET t == task[j]
           d == Mkdtemp(j)
           index == (LlmstxtName(t.url) :> t.result.llmstxt)
           full == (LlmsFulltxtName(t.url) :> t.result.llms_fulltxt)
           made(files, pc, e) ==
               /\ disk' = Put(disk, d, files)
               /\ task' = [task EXCEPT ![j].pc = pc, ![j].temp_dir = d, ![j].exc = e]
       IN  \/ /\ task' = Raise(j, MkdtempError)
              /\ UNCHANGED <<disk>>
           \/ made(EmptyDict, "except", WriteError)
           \/ /\ t.include_full_text
              /\ IF "llms_fulltxt" \in DOMAIN t.result
                 THEN \/ made(index, "except", WriteError)
                      \/ made(index @@ full, "l105", None)
                 ELSE made(index, "except", [type |-> "KeyError", arg |-> "llms_fulltxt"])
           \/ /\ ~t.include_full_text
              /\ made(index, "l105", None)
    /\ UNCHANGED <<generator, ACTIVE_JOBS, COMPLETED_JOBS, completed_order, next_job,
                   now, sweep, req>>
    /\ resp' = NoResp

\* lines 105-115: the completed record is stored
JobComplete(j) ==
    /\ task[j].pc = "l105"
    /\ LET t == task[j] IN
       COMPLETED_JOBS' = Put(COMPLETED_JOBS, j,
           CompletedRecord(t.url, t.result,
                           PathJoin(t.temp_dir, LlmstxtName(t.url)),
                           PathJoin(t.temp_dir, LlmsFulltxtName(t.url)),
                           t.include_full_text, now, t.temp_dir))
    /\ completed_order' = IF j \in DOMAIN COMPLETED_JOBS THEN completed_order
                          ELSE Append(completed_order, j)
    /\ task' = [task EXCEPT ![j].pc = "l117", ![j].completion_time = now]
    /\ UNCHANGED <<generator, ACTIVE_JOBS, next_job, disk, now, sweep, req>>
    /\ resp' = NoResp

\* lines 117-118 and 133-134: if job_id in ACTIVE_JOBS: del ACTIVE_JOBS[job_id]
Retire(j) ==
    /\ ACTIVE_JOBS' = IF j \in DOMAIN ACTIVE_JOBS THEN Del(ACTIVE_JOBS, j) ELSE ACTIVE_JOBS
    /\ task' = [task EXCEPT ![j].pc = "done"]
    /\ UNCHANGED <<generator, COMPLETED_JOBS, completed_order, next_job, disk,
                   now, sweep, req>>
    /\ resp' = NoResp

\* the tail of the try block raising, so that the except branch runs after
\* the completed record was stored
JobRetire_Raising(j) ==
    /\ task[j].pc = "l117"
    /\ task' = Raise(j, [type |-> "KeyError", arg |-> "job_id"])
    /\ UNCHANGED <<generator, ACTIVE_JOBS, COMPLETED_JOBS, completed_order, next_job, disk,
                   now, sweep, req>>
    /\ resp' = NoResp

JobRetire(j) ==
    /\ task[j].pc = "l117"
    /\ Retire(j)

\* an except branch that rebuilds the map around its own record
JobFail_Clobber(j) ==
    /\ task[j].pc = "except"
    /\ COMPLETED_JOBS' = Put(EmptyDict, j, FailedRecord(task[j].url, task[j].exc, now))
    /\ completed_order' = <<j>>
    /\ task' = [task EXCEPT ![j].pc = "l133", ![j].completion_time = now]
    /\ UNCHANGED <<generator, ACTIVE_JOBS, next_job, disk, now, sweep, req>>
    /\ resp' = NoResp

\* lines 122-131: the except branch stores the failed record
JobFail(j) ==
    /\ task[j].pc = "except"
    /\ COMPLETED_JOBS' = Put(COMPLETED_JOBS, j, FailedRecord(task[j].url, task[j].exc, now))
    /\ completed_order' = IF j \in DOMAIN COMPLETED_JOBS THEN completed_order
                          ELSE Append(completed_order, j)
    /\ task' = [task EXCEPT ![j].pc = "l133", ![j].completion_time = now]
    /\ UNCHANGED <<generator, ACTIVE_JOBS, next_job, disk, now, sweep, req>>
    /\ resp' = NoResp

\* the except branch ending without the delete of lines 133-134
JobRetireFailed_NoDelete(j) ==
    /\ task[j].pc = "l133"
    /\ task' = [task EXCEPT ![j].pc = "done"]
    /\ UNCHANGED <<generator, ACTIVE_JOBS, COMPLETED_JOBS, completed_order, next_job, disk,
                   now, sweep, req>>
    /\ resp' = NoResp

JobRetireFailed(j) ==
    /\ task[j].pc = "l133"
    /\ Retire(j)

\* the thread of job j
JobThread(j) ==
    \/ JobBegin(j)
    \/ JobCheckGenerator(j)
    \/ JobGenerate(j)
    \/ JobStage(j)
    \/ JobComplete(j)
    \/ JobRetire(j)
    \/ JobFail(j)
    \/ JobRetireFailed(j)

\* ---- GET /api/status/<job_id> ----
NotFoundBody == ErrorBody("Job not found")
\* what Flask answers when a view raises
InternalError(op, j) == [op |-> op, job |-> j, code |-> 500, body |-> ErrorBody("Internal Server Error")]

\* job = COMPLETED_JOBS[job_id].copy(); del job['files']; del job['temp_dir']
PublicView(job) == [k \in (DOMAIN job) \ {"files", "temp_dir"} |-> job[k]]
\* the stored record when the fields are deleted from it, not from a copy
StoredAfterStatus_NoCopy(job) == PublicView(job)
\* the stored record after the response was built from a copy of it
StoredAfterStatus(job) == job

\* the request arrives; line 365: `if job_id in ACTIVE_JOBS`
StatusArrive(j) ==
    /\ req = NoReq
    /\ req' = [op |-> "status", job |-> j,
               pc |-> IF j \in DOMAIN ACTIVE_JOBS THEN "r366" ELSE "t367"]
    /\ resp' = NoResp
    /\ UNCHANGED <<generator, jobvars, next_job, now, sweep>>

\* line 366: jsonify(ACTIVE_JOBS[job_id])
StatusReadActive ==
    /\ req.op = "status"
    /\ req.pc = "r366"
    /\ resp' = IF req.job \in DOMAIN ACTIVE_JOBS
               THEN [op |-> "status", job |-> req.job, code |-> 200,
                     body |-> ACTIVE_JOBS[req.job]]
               ELSE InternalError("status", req.job)
    /\ req' = NoReq
    /\ UNCHANGED <<generator, jobvars, next_job, now, sweep>>

\* line 367: `elif job_id in COMPLETED_JOBS`, else the 404 of line 376
StatusTestCompleted ==
    /\ req.op = "status"
    /\ req.pc = "t367"
    /\ IF req.job \in DOMAIN COMPLETED_JOBS
       THEN /\ req' = [req EXCEPT !.pc = "r368"]
            /\ resp' = NoResp
       ELSE /\ req' = NoReq
            /\ resp' = [op |-> "status", job |-> req.job, code |-> 404, body |-> NotFoundBody]
    /\ UNCHANGED <<generator, jobvars, next_job, now, sweep>>

\* lines 368-374: the copy, stripped, is the response
StatusReadCompleted ==
    /\ req.op = "status"
    /\ req.pc = "r368"
    /\ IF req.job \in DOMAIN COMPLETED_JOBS
       THEN /\ resp' = [op |-> "status", job |-> req.job, code |-> 200,
                        body |-> PublicView(COMPLETED_JOBS[req.job])]
            /\ COMPLETED_JOBS' = [COMPLETED_JOBS EXCEPT
                                     ![req.job] = StoredAfterStatus(COMPLETED_JOBS[req.job])]
       ELSE /\ resp' = InternalError("status", req.job)
            /\ UNCHANGED COMPLETED_JOBS
    /\ req' = NoReq
    /\ UNCHANGED <<generator, ACTIVE_JOBS, completed_order, task, disk, next_job, now, sweep>>

\* ---- GET /api/download/<job_id>/<file_type> ----
FileTypes == {"llmstxt", "llms_fulltxt", "other"}

\* a path is truthy; None is not
Truthy(path) == path # None
\* files.get(kind)
FilePath(files, kind) == Get(files, kind, None)
FileExists(d, path) == path.dir \in DOMAIN d /\ path.name \in DOMAIN d[path.dir]

\* lines 384-395, on the record read at line 384
DownloadResponse(j, file_type, job, d) ==
    IF job.status # "completed"
    THEN [op |-> "download", job |-> j, file_type |-> file_type, code |-> 400,
          body |-> ErrorBody("Job not completed")]
    ELSE LET files == Get(job, "files", EmptyDict)
             path == FilePath(files, file_type)
         IN  IF file_type \in {"llmstxt", "llms_fulltxt"} /\ Truthy(path)
             THEN IF FileExists(d, path)
                  THEN [op |-> "download", job |-> j, file_type |-> file_type, code |-> 200,
                        body |-> d[path.dir][path.name]]
                  ELSE InternalError("download", j) @@ [file_type |-> file_type]
             ELSE [op |-> "download", job |-> j, file_type |-> file_type, code |-> 404,
                   body |-> ErrorBody("File not found")]

\* the request arrives; line 381: `if job_id not in COMPLETED_JOBS`
DownloadArrive(j, file_type) ==
    /\ req = NoReq
    /\ IF j \notin DOMAIN COMPLETED_JOBS
       THEN /\ req' = NoReq
            /\ resp' = [op |-> "download", job |-> j, file_type |-> file_type, code |-> 404,
                        body |-> NotFoundBody]
       ELSE /\ req' = [op |-> "download", job |-> j, file_type |-> file_type, pc |-> "r384"]
            /\ resp' = NoResp
    /\ UNCHANGED <<generator, jobvars, next_job, now, sweep>>

\* line 384: job = COMPLETED_JOBS[job_id], and the rest of the view
DownloadServe ==
    /\ req.op = "download"
    /\ req.pc = "r384"
    /\ resp' = IF req.job \in DOMAIN COMPLETED_JOBS
               THEN DownloadResponse(req.job, req.file_type, COMPLETED_JOBS[req.job], disk)
               ELSE InternalError("download", req.job) @@ [file_type |-> req.file_type]
    /\ req' = NoReq
    /\ UNCHANGED <<generator, jobvars, next_job, now, sweep>>

\* ---- health ----
HealthBody ==
    [status |-> "healthy",
     generator_ready |-> generator,
     active_jobs |-> Cardinality(DOMAIN ACTIVE_JOBS),
     completed_jobs |-> Cardinality(DOMAIN COMPLETED_JOBS)]

Health ==
    /\ req = NoReq
    /\ resp' = [op |-> "health", job |-> UnknownJob, code |-> 200, body |-> HealthBody]
    /\ UNCHANGED <<generator, jobvars, next_job, now, sweep, req>>

\* ---- cleanup_old_jobs ----
\* shutil.rmtree(dir): the directory and its files are gone, or it raises
Rmtree(d, dir) == Del(d, dir)

\* a run that arms the next timer on entry, as a fixed-rate timer would
SweepStart_RearmFirst ==
    /\ sweep.timers > 0
    /\ now >= sweep.at + TimerInterval
    /\ sweep' = [pc |-> "iter", at |-> now, cutoff |-> now - RetentionSeconds,
                 timers |-> sweep.timers,
                 di_used |-> Len(completed_order), pos |-> 0, jobs_to_remove |-> <<>>]
    /\ UNCHANGED <<generator, jobvars, next_job, now, req>>
    /\ resp' = NoResp

\* an armed Timer fires and its thread starts a run: cutoff_time, and the
\* iterator over items()
SweepStart ==
    /\ sweep.timers > 0
    /\ now >= sweep.at + TimerInterval
    /\ sweep' = [pc |-> "iter", at |-> sweep.at, cutoff |-> now - RetentionSeconds,
                 timers |-> sweep.timers - 1,
                 di_used |-> Len(completed_order), pos |-> 0, jobs_to_remove |-> <<>>]
    /\ UNCHANGED <<generator, jobvars, next_job, now, req>>
    /\ resp' = NoResp

\* a test against the time of the run instead of the time one window before it
Expired_NoWindow(job, cutoff_time) ==
    Get(job, "completion_time", 0) <= cutoff_time + RetentionSeconds

\* job.get("completion_time", 0) < cutoff_time
Expired(job, cutoff_time) == Get(job, "completion_time", 0) < cutoff_time

\* one step of `for job_id, job in COMPLETED_JOBS.items()`: the iterator
\* raises RuntimeError when the dict's size changed since it was created
SweepNext ==
    /\ sweep.pc = "iter"
    /\ IF Len(completed_order) # sweep.di_used
       THEN /\ sweep' = [sweep EXCEPT !.pc = "dead", !.pos = 0, !.di_used = 0,
                                      !.jobs_to_remove = <<>>]
            /\ UNCHANGED disk
       ELSE IF sweep.pos = sweep.di_used
       THEN /\ sweep' = [sweep EXCEPT !.pc = "del", !.pos = 0, !.di_used = 0]
            /\ UNCHANGED disk
       ELSE LET job_id == completed_order[sweep.pos + 1]
                job == COMPLETED_JOBS[job_id]
            IN  IF Expired(job, sweep.cutoff)
                THEN /\ sweep' = [sweep EXCEPT !.pos = @ + 1,
                                               !.jobs_to_remove = Append(@, job_id)]
                     /\ IF "temp_dir" \in DOMAIN job
                        THEN \/ disk' = Rmtree(disk, job.temp_dir)
                             \/ UNCHANGED disk     \* rmtree raised: except: pass
                        ELSE UNCHANGED disk
                ELSE /\ sweep' = [sweep EXCEPT !.pos = @ + 1]
                     /\ UNCHANGED disk
    /\ UNCHANGED <<generator, ACTIVE_JOBS, COMPLETED_JOBS, completed_order, task,
                   next_job, now, req>>
    /\ resp' = NoResp

\* one step of `for job_id in jobs_to_remove: del COMPLETED_JOBS[job_id]`
SweepDel ==
    /\ sweep.pc = "del"
    /\ sweep.jobs_to_remove # <<>>
    /\ COMPLETED_JOBS' = Del(COMPLETED_JOBS, Head(sweep.jobs_to_remove))
    /\ completed_order' = RemoveKey(completed_order, Head(sweep.jobs_to_remove))
    /\ sweep' = [sweep EXCEPT !.jobs_to_remove = Tail(@)]
    /\ UNCHANGED <<generator, ACTIVE_JOBS, task, next_job, disk, now, req>>
    /\ resp' = NoResp

\* threading.Timer(1800, cleanup_old_jobs).start()
SweepRearm ==
    /\ sweep.pc = "del"
    /\ sweep.jobs_to_remove = <<>>
    /\ sweep' = [sweep EXCEPT !.pc = "armed", !.at = now, !.cutoff = 0,
                              !.timers = @ + 1]
    /\ UNCHANGED <<generator, jobvars, next_job, now, req>>
    /\ resp' = NoResp

Next ==
    \/ Tick
    \/ \E body \in Bodies : Generate(body)
    \/ \E j \in JobIds : JobBegin(j)
    \/ \E j \in JobIds : JobCheckGenerator(j)
    \/ \E j \in JobIds : JobGenerate(j)
    \/ \E j \in JobIds : JobStage(j)
    \/ \E j \in JobIds : JobComplete(j)
    \/ \E j \in JobIds : JobRetire(j)
    \/ \E j \in JobIds : JobFail(j)
    \/ \E j \in JobIds : JobRetireFailed(j)
    \/ \E j \in JobIds \cup {UnknownJob} : StatusArrive(j)
    \/ StatusReadActive
    \/ StatusTestCompleted
    \/ StatusReadCompleted
    \/ \E j \in JobIds \cup {UnknownJob}, file_type \in FileTypes : DownloadArrive(j, file_type)
    \/ DownloadServe
    \/ Health
    \/ SweepStart
    \/ SweepNext
    \/ SweepDel
    \/ SweepRearm

Spec == Init /\ [][Next]_vars

\* ---- the job threads and the sweep alone, over a longer time ----
\* The status and download handlers change neither map nor the disk, so the
\* threads and the sweep behave the same without them.
TickSweeps == TickTo(SweepsMaxTime)

NextSweeps ==
    \/ TickSweeps
    \/ \E body \in Bodies : Generate(body)
    \/ \E j \in JobIds : JobBegin(j)
    \/ \E j \in JobIds : JobCheckGenerator(j)
    \/ \E j \in JobIds : JobGenerate(j)
    \/ \E j \in JobIds : JobStage(j)
    \/ \E j \in JobIds : JobComplete(j)
    \/ \E j \in JobIds : JobRetire(j)
    \/ \E j \in JobIds : JobFail(j)
    \/ \E j \in JobIds : JobRetireFailed(j)
    \/ SweepStart
    \/ SweepNext
    \/ SweepDel
    \/ SweepRearm

SpecSweeps == Init /\ [][NextSweeps]_vars

\* ---- the job threads scheduled fairly ----
\* A started thread is a daemon thread of the running process: it keeps
\* being scheduled, and the generator call it makes returns or raises.  A
\* runnable thread is not held back for a step of the clock: the clock moves
\* on only while every started thread has ended or is inside the generator
\* call of line 86, the one statement that waits.
Waiting(j) == task[j].pc \in {"none", "l86", "done"}

TickFair ==
    /\ \A j \in JobIds : Waiting(j)
    /\ Tick

NextFair ==
    \/ TickFair
    \/ \E body \in Bodies : Generate(body)
    \/ \E j \in JobIds : JobThread(j)
    \/ SweepStart
    \/ SweepNext
    \/ SweepDel
    \/ SweepRearm

SpecFair == Init /\ [][NextFair]_vars /\ \A j \in JobIds : WF_vars(JobThread(j))

\* ---- properties ----
Terminal(j) == task[j].completion_time # -1
TerminalStatuses == {"completed", "failed"}

\* C1: a job gets at most one terminal record (a record is stored or replaced
\* in COMPLETED_JOBS only for a job that never had one), the status of a
\* record never changes while the record exists, the status is completed or
\* failed, and a job that has had a terminal record never enters ACTIVE_JOBS
\* again.
C1_SingleTerminalTransition ==
    [][\A j \in JobIds :
          /\ (/\ j \in DOMAIN COMPLETED_JOBS'
              /\ (j \in DOMAIN COMPLETED_JOBS => COMPLETED_JOBS'[j] # COMPLETED_JOBS[j]))
                 => /\ ~Terminal(j)
                    /\ COMPLETED_JOBS'[j].status \in TerminalStatuses
          /\ (j \in DOMAIN COMPLETED_JOBS /\ j \in DOMAIN COMPLETED_JOBS')
                 => COMPLETED_JOBS'[j].status = COMPLETED_JOBS[j].status
          /\ (Terminal(j) /\ j \notin DOMAIN ACTIVE_JOBS) => j \notin DOMAIN ACTIVE_JOBS'
      ]_vars

C1_Witness ==
    \E j \in JobIds :
        /\ task[j].pc = "done"
        /\ j \in DOMAIN COMPLETED_JOBS
        /\ COMPLETED_JOBS[j].status = "completed"
        /\ j \notin DOMAIN ACTIVE_JOBS

\* C2: a status query for an identifier generate has returned, answered while
\* the job has no terminal record yet, answers 200 with the pending record
\* (status processing), never not-found.
C2_StatusAfterSubmitIsProcessing ==
    (/\ resp.op = "status"
     /\ resp.job \in 1..next_job
     /\ ~Terminal(resp.job))
        => /\ resp.code = 200
           /\ resp.body.status = "processing"

\* C3: no job identifier is in ACTIVE_JOBS and in COMPLETED_JOBS at once.
C3_NeverInBoth == (DOMAIN ACTIVE_JOBS) \cap (DOMAIN COMPLETED_JOBS) = {}

\* C4: a submit whose body is missing or has no url answers with a 4xx status
\* and an error message, returns no job identifier, creates no record and
\* starts no thread.
C4_MissingUrlIsClientError ==
    [][\A body \in Bodies :
          (UrlMissing(body) /\ Generate(body))
              => /\ resp'.code \in 400..499
                 /\ "error" \in DOMAIN resp'.body
                 /\ "job_id" \notin DOMAIN resp'.body
                 /\ UNCHANGED <<ACTIVE_JOBS, COMPLETED_JOBS, task, next_job>>
      ]_vars

\* C5: when a step of the job's thread raised, the except branch stores a
\* record with status failed whose error is str() of the exception raised,
\* and once the thread has ended the job is not in ACTIVE_JOBS, and its
\* record, as long as it is kept, is that failed record.
C5_FailureRecorded ==
    [][\A j \in JobIds :
          /\ (task[j].pc = "except" /\ task'[j].pc # "except")
                 => /\ j \in DOMAIN COMPLETED_JOBS'
                    /\ COMPLETED_JOBS'[j].status = "failed"
                    /\ COMPLETED_JOBS'[j].error = Str(task[j].exc)
          /\ (task'[j].pc = "done" /\ task'[j].exc # None)
                 => /\ j \notin DOMAIN ACTIVE_JOBS'
                    /\ j \in DOMAIN COMPLETED_JOBS'
                           => /\ COMPLETED_JOBS'[j].status = "failed"
                              /\ COMPLETED_JOBS'[j].error = Str(task'[j].exc)
      ]_vars

C5_Witness ==
    \E j \in JobIds :
        /\ task[j].pc = "done"
        /\ task[j].exc = WriteError
        /\ j \in DOMAIN COMPLETED_JOBS
        /\ COMPLETED_JOBS[j].status = "failed"
        /\ j \notin DOMAIN ACTIVE_JOBS

\* C6: a job whose record is failed has no temporary directory on disk.
C6_FailedLeavesNoStagedOutput ==
    \A j \in DOMAIN COMPLETED_JOBS :
        COMPLETED_JOBS[j].status = "failed" => task[j].temp_dir \notin DOMAIN disk

\* C7: a download for a job that is known and not completed (pending, or
\* failed) answers 400.
C7_DownloadNotCompletedIs400 ==
    (/\ resp.op = "download"
     /\ \/ /\ resp.job \in DOMAIN ACTIVE_JOBS
           /\ resp.job \notin DOMAIN COMPLETED_JOBS
        \/ /\ resp.job \in DOMAIN COMPLETED_JOBS
           /\ COMPLETED_JOBS[resp.job].status = "failed")
        => resp.code = 400

\* C8: a completed record has its index path set and its full-text path set
\* exactly when include_full_text was true; a download for a completed record
\* answers 200 with the generator's document when the path of the requested
\* kind is set, and 404 otherwise.
C8_CompletedFilesDownloadable ==
    /\ \A j \in DOMAIN COMPLETED_JOBS :
           COMPLETED_JOBS[j].status = "completed"
               => /\ COMPLETED_JOBS[j].files.llmstxt # None
                  /\ (COMPLETED_JOBS[j].files.llms_fulltxt # None) <=> task[j].include_full_text
    /\ (/\ resp.op = "download"
        /\ resp.job \in DOMAIN COMPLETED_JOBS
        /\ COMPLETED_JOBS[resp.job].status = "completed")
           => IF /\ resp.file_type \in {"llmstxt", "llms_fulltxt"}
                 /\ COMPLETED_JOBS[resp.job].files[resp.file_type] # None
              THEN /\ resp.code = 200
                   /\ resp.body = task[resp.job].result[resp.file_type]
              ELSE resp.code = 404

\* C9: a status response that carries a terminal record has neither the
\* files nor the temp_dir field, and the stored completed records keep both.
C9_StatusStripsInternalFields ==
    /\ (/\ resp.op = "status"
        /\ resp.code = 200
        /\ resp.body.status \in TerminalStatuses)
           => /\ "files" \notin DOMAIN resp.body
              /\ "temp_dir" \notin DOMAIN resp.body
    /\ \A j \in DOMAIN COMPLETED_JOBS :
           COMPLETED_JOBS[j].status = "completed"
               => {"files", "temp_dir"} \subseteq DOMAIN COMPLETED_JOBS[j]

C9_Witness ==
    /\ resp.op = "status"
    /\ resp.code = 200
    /\ resp.body.status = "completed"
    /\ resp.job \in DOMAIN COMPLETED_JOBS
    /\ "files" \in DOMAIN COMPLETED_JOBS[resp.job]

\* C10: when a sweep finishes (it re-arms the timer), every job whose
\* completion time is before the sweep's cutoff is out of COMPLETED_JOBS and
\* its temporary directory is gone from the disk.
C10_SweepRemovesExpired ==
    [][(sweep.pc = "del" /\ sweep'.pc = "armed")
          => \A j \in JobIds :
                 (Terminal(j) /\ task[j].completion_time < sweep.cutoff)
                     => /\ j \notin DOMAIN COMPLETED_JOBS'
                        /\ task[j].temp_dir \notin DOMAIN disk'
      ]_vars

\* C11: a sweep that has started re-arms the timer: its thread never ends
\* without having armed the next run, whatever the job threads insert while
\* it iterates.
C11_SweepAlwaysRearms == sweep.pc # "dead"

\* a run of the sweep is executing
SweepRunning == sweep.pc \in {"iter", "del"}

\* C12: at most one sweep is executing or armed on a timer, and a run starts
\* only when no run is executing.
C12_SweepsSequential ==
    [][/\ sweep'.timers + (IF SweepRunning' THEN 1 ELSE 0) <= 1
       /\ (sweep'.pc = "iter" /\ sweep.pc # "iter") => ~SweepRunning
      ]_vars

\* a second run, started by the timer the first run armed
C12_Witness ==
    /\ sweep.pc = "iter"
    /\ sweep.at > 0
    /\ sweep.timers = 0

Contains(s, sub) ==
    \E i \in 1..(Len(s) - Len(sub) + 1) : SubSeq(s, i, i + Len(sub) - 1) = sub

\* C14: while the generator is not initialized, health answers generator_ready
\* false; no job reaches the generator call, creates a directory or a file; a
\* job whose thread has ended failed with the "not initialized" exception and
\* is out of ACTIVE_JOBS; every record in COMPLETED_JOBS is a failed one whose
\* error contains "not initialized".
C14_UninitializedGeneratorFailsJobs ==
    ~generator =>
        /\ resp.op = "health" => resp.body.generator_ready = FALSE
        /\ disk = EmptyDict
        /\ \A j \in JobIds :
              /\ task[j].calls = 0
              /\ task[j].temp_dir = 0
              /\ task[j].pc \in {"none", "spawned", "l80", "except", "l133", "done"}
              /\ task[j].pc \in {"except", "l133", "done"} => task[j].exc = NotInitialized
              /\ task[j].pc = "done" => j \notin DOMAIN ACTIVE_JOBS
        /\ \A j \in DOMAIN COMPLETED_JOBS :
              /\ COMPLETED_JOBS[j].status = "failed"
              /\ Contains(COMPLETED_JOBS[j].error, "not initialized")

\* every accepted job has ended failed and health has just answered
C14_Witness ==
    /\ ~generator
    /\ next_job = MaxJobs
    /\ \A j \in JobIds :
          /\ task[j].pc = "done"
          /\ j \in DOMAIN COMPLETED_JOBS
          /\ COMPLETED_JOBS[j].status = "failed"
    /\ resp.op = "health"
    /\ resp.body.generator_ready = FALSE

\* ---- C15 ----
\* a step of job j's thread that raises, or that runs in its except branch
FailureStep(j) ==
    /\ task'[j] # task[j]
    /\ \/ task'[j].pc \in {"except", "l133"}
       \/ task[j].pc = "l133"

\* what the maps, the disk and the thread hold for job k
Holdings(a, c, d, t, k) ==
    [pending |-> IF k \in DOMAIN a THEN a[k] ELSE None,
     terminal |-> IF k \in DOMAIN c THEN c[k] ELSE None,
     staged |-> IF Mkdtemp(k) \in DOMAIN d THEN d[Mkdtemp(k)] ELSE None,
     thread |-> t[k]]

\* C15: a step of one job's failure (the raise, the store of the failed
\* record, the delete of its pending record) leaves every other job's pending
\* record, terminal record, staged files and thread as they were, and leaves
\* the generator, the cleanup timer and the request in flight as they were.
C15_FailureContained ==
    [][\A j \in JobIds :
          FailureStep(j) =>
              /\ \A k \in JobIds \ {j} :
                    Holdings(ACTIVE_JOBS', COMPLETED_JOBS', disk', task', k)
                        = Holdings(ACTIVE_JOBS, COMPLETED_JOBS, disk, task, k)
              /\ UNCHANGED <<generator, sweep, req, next_job>>
      ]_vars

\* one job failed after another one completed, whose record and files are
\* still there
C15_Witness ==
    \E j \in JobIds : \E k \in JobIds \ {j} :
        /\ task[j].pc = "done"
        /\ task[j].exc # None
        /\ j \in DOMAIN COMPLETED_JOBS
        /\ COMPLETED_JOBS[j].status = "failed"
        /\ task[k].completion_time >= 0
        /\ task[j].completion_time > task[k].completion_time
        /\ k \in DOMAIN COMPLETED_JOBS
        /\ COMPLETED_JOBS[k].status = "completed"
        /\ Mkdtemp(k) \in DOMAIN disk

\* ---- C16 ----
\* C16: every answer to a status query is the pending record (200), a terminal
\* record without files and temp_dir (200), or the not-found body (404); the
\* read that follows a membership test never misses the record.
C16_StatusOutcomeIsOneOfThree ==
    resp.op = "status" =>
        \/ /\ resp.code = 200
           /\ resp.body.status = "processing"
        \/ /\ resp.code = 200
           /\ resp.body.status \in TerminalStatuses
           /\ DOMAIN resp.body \cap {"files", "temp_dir"} = {}
        \/ /\ resp.code = 404
           /\ resp.body = NotFoundBody

\* ---- C17 ----
\* a step of the cleanup timer or of a run of cleanup_old_jobs
SweepStep == sweep' # sweep

\* C17: a step of the sweep leaves ACTIVE_JOBS as it was, and leaves the
\* records, the staged directory and the thread of every job as they were,
\* except for a job with a terminal record whose completion_time is more than
\* RetentionSeconds before the time the run read on entry.
C17_SweepTouchesOnlyExpired ==
    [][SweepStep =>
          /\ ACTIVE_JOBS' = ACTIVE_JOBS
          /\ \A j \in JobIds :
                (\/ j \notin DOMAIN COMPLETED_JOBS
                 \/ sweep.pc = "armed"
                 \/ COMPLETED_JOBS[j].completion_time >= sweep.cutoff)
                    => Holdings(ACTIVE_JOBS', COMPLETED_JOBS', disk', task', j)
                           = Holdings(ACTIVE_JOBS, COMPLETED_JOBS, disk, task, j)
      ]_vars

\* a run has gone over two records, one past the window and marked for
\* removal, one within it and still there with its files
C17_Witness ==
    /\ sweep.pc = "iter"
    /\ sweep.pos = 2
    /\ Len(completed_order) = sweep.di_used
    /\ Len(sweep.jobs_to_remove) = 1
    /\ \E j \in DOMAIN COMPLETED_JOBS :
          /\ COMPLETED_JOBS[j].completion_time >= sweep.cutoff
          /\ COMPLETED_JOBS[j].status = "completed"
          /\ FileExists(disk, COMPLETED_JOBS[j].files.llmstxt)

\* ---- C18 ----
\* C18: generate_llmstxt is called at most once for a job; the call is made
\* while the job has its pending record with status processing and no terminal
\* record; its arguments are the url of the submitted body, and the body's
\* max_urls and include_full_text or 20 and true where the body has none; a
\* job that has had a terminal record is not called for again and does not
\* come back into ACTIVE_JOBS.
C18_GeneratorCalledOncePerJob ==
    [][\A j \in JobIds :
          /\ task'[j].calls <= 1
          /\ task'[j].calls > task[j].calls =>
                /\ j \in DOMAIN ACTIVE_JOBS
                /\ ACTIVE_JOBS[j].status = "processing"
                /\ j \notin DOMAIN COMPLETED_JOBS
                /\ ~Terminal(j)
                /\ task'[j].args =
                      [url |-> task[j].data.url,
                       max_urls |-> IF "max_urls" \in DOMAIN task[j].data
                                    THEN task[j].data.max_urls ELSE 20,
                       include_full_text |-> IF "include_full_text" \in DOMAIN task[j].data
                                             THEN task[j].data.include_full_text ELSE TRUE]
          /\ Terminal(j) =>
                /\ task'[j].calls = task[j].calls
                /\ task'[j].args = task[j].args
                /\ j \notin DOMAIN ACTIVE_JOBS => j \notin DOMAIN ACTIVE_JOBS'
      ]_vars

\* a job submitted with the url alone, whose one call raised, has ended failed
C18_Witness ==
    \E j \in JobIds :
        /\ task[j].pc = "done"
        /\ DOMAIN task[j].data = {"url"}
        /\ task[j].calls = 1
        /\ task[j].args.max_urls = 20
        /\ task[j].args.include_full_text
        /\ task[j].exc = GeneratorError
        /\ j \in DOMAIN COMPLETED_JOBS
        /\ COMPLETED_JOBS[j].status = "failed"

\* ---- C19 ----
\* C19: every path that is set in the files of a record of COMPLETED_JOBS with
\* status completed names a file that exists on disk, at every moment, a
\* running sweep included.
C19_CompletedRecordFilesExist ==
    \A j \in DOMAIN COMPLETED_JOBS :
        COMPLETED_JOBS[j].status = "completed" =>
            \A kind \in DOMAIN COMPLETED_JOBS[j].files :
                Truthy(COMPLETED_JOBS[j].files[kind])
                    => FileExists(disk, COMPLETED_JOBS[j].files[kind])

====
